---- MODULE Spec2Model ----
(***************************************************************************)
(* Model of src/src/lib.rs: the bit-banged TLC5940 controller.             *)
(*                                                                         *)
(* One step of the model is one pin write (set_low / set_high) or one      *)
(* buffer setter call.  Every pin write may succeed or fail; a failing     *)
(* write returns its error through the `?` operators of the caller.        *)
(***************************************************************************)
EXTENDS Integers, Sequences, FiniteSets

(* ------------------------------------------------------------------ *)
(* Program constants                                                   *)
(* ------------------------------------------------------------------ *)

\* values: [u16; 16]
NumChannels == 16

\* for i in (0..12).rev()
BitsPerChannel == 12

\* while gsclk_counter < 4096
GsclkCycle == 4096

\* u16
WordModulus == 65536

(* ------------------------------------------------------------------ *)
(* Bounds of the model                                                 *)
(* ------------------------------------------------------------------ *)

\* number of most recent pin writes of the running call kept in `recent`
Window == 5

\* colours handed to set_channel / set_all: 0x0A53, 0xF5AC (complementary
\* low 12 bits, one with bits 12..15 set)
InputValues == {2643, 62892}

\* channel indices handed to set_channel; 16 is out of range
InputChannels == {3, 16}

(* ------------------------------------------------------------------ *)
(* Types                                                               *)
(* ------------------------------------------------------------------ *)

\* struct TlcController<Pin> { sin, sclk, blank, xlat, gsclk, .. }
Pins == {"sin", "sclk", "blank", "xlat", "gsclk"}

\* enum GpioValue { Low, High }
Low == "Low"
High == "High"
GpioValue == {Low, High}

\* a pin nobody has written yet keeps its prior, unknown level
Unset == "Unset"

Channels == 0 .. (NumChannels - 1)

VARIABLES
    pc,                 \* position of the program
    level,              \* level[p]: last level successfully written to pin p
    values,             \* the channel buffer (exists once new() built Self)
    channel_counter,    \* update(): let mut channel_counter
    gsclk_counter,      \* update(): let mut gsclk_counter
    bit,                \* update(): the for loop's i
    idx,                \* new(): position of the try_for_each iterator
    ret,                \* result of the last new() / update()
    call,               \* history of the running (or last) operation
    base,               \* history: the last whole-buffer assignment
    over                \* history: set_channel calls since then

vars == <<pc, level, values, channel_counter, gsclk_counter, bit, idx, ret,
          call, base, over>>

(* ------------------------------------------------------------------ *)
(* u16 arithmetic                                                      *)
(* ------------------------------------------------------------------ *)

RECURSIVE Pow2(_)
Pow2(n) == IF n = 0 THEN 1 ELSE 2 * Pow2(n - 1)

\* a & b on u16
RECURSIVE BitAnd(_, _)
BitAnd(a, b) ==
    IF a = 0 \/ b = 0 THEN 0
    ELSE (a % 2) * (b % 2) + 2 * BitAnd(a \div 2, b \div 2)

\* a << n on u16 (n < 16)
Shl(a, n) == (a * Pow2(n)) % WordModulus

\* a >> n on u16
Shr(a, n) == a \div Pow2(n)

(* ------------------------------------------------------------------ *)
(* Results                                                             *)
(* ------------------------------------------------------------------ *)

NoResult == [kind |-> "none"]
Ok == [kind |-> "Ok"]

\* the error a failing set_low / set_high of pin p hands back
PinError(p, l) == [pin |-> p, level |-> l]
Err(e) == [kind |-> "Err", error |-> e]

\* mutant: the result is dropped and the function carries on
TryIgnoringErr(ok, next, exit) == next

\* the `?` operator: on Err the function returns at once
Try(ok, next, exit) == IF ok THEN next ELSE exit

(* ------------------------------------------------------------------ *)
(* History of one operation: what an instrumented pin set records      *)
(* ------------------------------------------------------------------ *)

NoFault == <<>>

\* op: the operation; nWrites: its successful pin writes; wr[p][l]: those of
\* level l to pin p; pulses[p]: set_high followed by set_low on p;
\* recent: the last (up to Window) successful writes; attempts: pin writes
\* attempted, failed ones included; fault: the first write that failed;
\* late: pin writes attempted after that one
FreshCall(o) ==
    [op |-> o,
     nWrites |-> 0,
     wr |-> [p \in Pins |-> [l \in GpioValue |-> 0]],
     pulses |-> [p \in Pins |-> 0],
     recent |-> <<>>,
     attempts |-> 0,
     fault |-> NoFault,
     late |-> 0]

Push(s, w) ==
    IF Len(s) < Window THEN Append(s, w) ELSE Append(Tail(s), w)

Record(h, p, l, ok) ==
    IF ok
    THEN [h EXCEPT
            !.nWrites = @ + 1,
            !.wr[p][l] = @ + 1,
            !.pulses[p] =
                IF l = Low /\ h.wr[p][High] > 0 /\ level[p] = High
                THEN @ + 1 ELSE @,
            !.recent = Push(@, <<p, l>>),
            !.attempts = @ + 1,
            !.late = IF h.fault = NoFault THEN @ ELSE @ + 1]
    ELSE [h EXCEPT
            !.attempts = @ + 1,
            !.fault = IF @ = NoFault THEN <<p, l>> ELSE @,
            !.late = IF h.fault = NoFault THEN @ ELSE @ + 1]

\* set_low / set_high on pin p; ok: whether the pin returned Ok(())
SetLevel(h, p, l, ok) ==
    /\ level' = IF ok THEN [level EXCEPT ![p] = l] ELSE level
    /\ call' = Record(h, p, l, ok)

\* fn set_low(&mut self) -> Result<(), Self::Error>
set_low(h, p, ok) == SetLevel(h, p, Low, ok)

\* fn set_high(&mut self) -> Result<(), Self::Error>
set_high(h, p, ok) == SetLevel(h, p, High, ok)

\* fn set_value(&mut self, value)
set_value(h, p, v, ok) ==
    IF v = High THEN set_high(h, p, ok) ELSE set_low(h, p, ok)

\* GpioOutExt::pulse, first statement: self.set_high()?
pulse_set_high(h, p, ok) == set_high(h, p, ok)

\* mutant: pulse raises the pin twice and never lowers it
pulse_set_high_again(h, p, ok) == set_high(h, p, ok)

\* GpioOutExt::pulse, second statement: self.set_low()
pulse_set_low(h, p, ok) == set_low(h, p, ok)

(* ------------------------------------------------------------------ *)
(* new()                                                               *)
(* ------------------------------------------------------------------ *)

\* mutant: the pins in the order of the struct's fields, latch last
LowOrderLatchLast == <<"sin", "sclk", "gsclk", "xlat">>

\* [&mut sin, &mut sclk, &mut xlat, &mut gsclk]
LowOrder == <<"sin", "sclk", "xlat", "gsclk">>

Init ==
    /\ pc = "new_low"
    /\ level = [p \in Pins |-> Unset]
    /\ values = <<>>
    /\ channel_counter = 0
    /\ gsclk_counter = 0
    /\ bit = 0
    /\ idx = 1
    /\ ret = NoResult
    /\ call = FreshCall("new")
    /\ base = [op |-> "none", value |-> 0]
    /\ over = <<>>

\* mutant: .into_iter().for_each(|p| { let _ = p.set_low(); })
NewSetLowIgnoringErr ==
    /\ pc = "new_low"
    /\ \E ok \in BOOLEAN :
        /\ set_low(call, LowOrder[idx], ok)
        /\ idx' = idx + 1
        /\ pc' = IF idx = Len(LowOrder) THEN "new_blank" ELSE "new_low"
        /\ ret' = ret
    /\ UNCHANGED <<values, channel_counter, gsclk_counter, bit, base, over>>

\* .into_iter().try_for_each(GpioOut::set_low)?
NewSetLow ==
    /\ pc = "new_low"
    /\ \E ok \in BOOLEAN :
        /\ set_low(call, LowOrder[idx], ok)
        /\ idx' = IF ok THEN idx + 1 ELSE idx
        /\ pc' = Try(ok, IF idx = Len(LowOrder) THEN "new_blank" ELSE "new_low",
                     "no_controller")
        /\ ret' = IF ok THEN ret ELSE Err(PinError(LowOrder[idx], Low))
    /\ UNCHANGED <<values, channel_counter, gsclk_counter, bit, base, over>>

\* mutant: values: core::array::from_fn(|i| i as u16)
NewBlankHighIndexFilled ==
    /\ pc = "new_blank"
    /\ \E ok \in BOOLEAN :
        /\ set_high(call, "blank", ok)
        /\ pc' = Try(ok, "idle", "no_controller")
        /\ ret' = IF ok THEN Ok ELSE Err(PinError("blank", High))
        /\ values' = IF pc' = "idle" THEN [c \in Channels |-> c] ELSE values
        /\ base' = IF pc' = "idle" THEN [op |-> "new", value |-> 0] ELSE base
    /\ UNCHANGED <<idx, channel_counter, gsclk_counter, bit, over>>

\* blank.set_high()?; Ok(Self { .., values: core::array::from_fn(|_| 0) })
NewBlankHigh ==
    /\ pc = "new_blank"
    /\ \E ok \in BOOLEAN :
        /\ set_high(call, "blank", ok)
        /\ pc' = Try(ok, "idle", "no_controller")
        /\ ret' = IF ok THEN Ok ELSE Err(PinError("blank", High))
        /\ values' = IF pc' = "idle" THEN [c \in Channels |-> 0] ELSE values
        /\ base' = IF pc' = "idle" THEN [op |-> "new", value |-> 0] ELSE base
    /\ UNCHANGED <<idx, channel_counter, gsclk_counter, bit, over>>

(* ------------------------------------------------------------------ *)
(* The setters                                                         *)
(* ------------------------------------------------------------------ *)

\* mutant: the channel is taken as 1-based
set_channel_one_based(channel, color) ==
    /\ pc = "idle"
    /\ IF (channel - 1) \in DOMAIN values
       THEN /\ values' = [values EXCEPT ![channel - 1] = color]
            /\ pc' = "idle"
            /\ over' = [c \in DOMAIN over \cup {channel} |->
                          IF c = channel THEN color ELSE over[c]]
       ELSE /\ pc' = "panicked"
            /\ UNCHANGED <<values, over>>
    /\ call' = FreshCall("set_channel")
    /\ UNCHANGED <<level, channel_counter, gsclk_counter, bit, idx, ret, base>>

\* mutant: the buffer is a growable vector that is resized to hold the index
set_channel_resizing(channel, color) ==
    /\ pc = "idle"
    /\ values' = [c \in DOMAIN values \cup {channel} |->
                    IF c = channel THEN color ELSE values[c]]
    /\ pc' = "idle"
    /\ over' = [c \in DOMAIN over \cup {channel} |->
                  IF c = channel THEN color ELSE over[c]]
    /\ call' = FreshCall("set_channel")
    /\ UNCHANGED <<level, channel_counter, gsclk_counter, bit, idx, ret, base>>

\* self.values[channel] = color: an index past the array panics
set_channel(channel, color) ==
    /\ pc = "idle"
    /\ IF channel \in DOMAIN values
       THEN /\ values' = [values EXCEPT ![channel] = color]
            /\ pc' = "idle"
            /\ over' = [c \in DOMAIN over \cup {channel} |->
                          IF c = channel THEN color ELSE over[c]]
       ELSE /\ pc' = "panicked"
            /\ UNCHANGED <<values, over>>
    /\ call' = FreshCall("set_channel")
    /\ UNCHANGED <<level, channel_counter, gsclk_counter, bit, idx, ret, base>>

\* mutant: set_all() also strobes the serial clock high
set_all_clocking(value) ==
    /\ pc = "idle"
    /\ values' = [c \in DOMAIN values |-> value]
    /\ set_high(FreshCall("set_all"), "sclk", TRUE)
    /\ base' = [op |-> "set_all", value |-> value]
    /\ over' = <<>>
    /\ UNCHANGED <<pc, channel_counter, gsclk_counter, bit, idx, ret>>

\* self.values.iter_mut().for_each(|num| *num = value)
AssignAll(value) == [c \in DOMAIN values |-> value]

set_all(value) ==
    /\ pc = "idle"
    /\ values' = AssignAll(value)
    /\ call' = FreshCall("set_all")
    /\ base' = [op |-> "set_all", value |-> value]
    /\ over' = <<>>
    /\ UNCHANGED <<pc, level, channel_counter, gsclk_counter, bit, idx, ret>>

\* mutant: clear() returns without touching the buffer
clear_keeps_buffer ==
    /\ pc = "idle"
    /\ call' = FreshCall("clear")
    /\ base' = [op |-> "clear", value |-> 0]
    /\ over' = <<>>
    /\ UNCHANGED <<pc, values, level, channel_counter, gsclk_counter, bit, idx,
                   ret>>

\* self.set_all(0)
clear ==
    /\ pc = "idle"
    /\ values' = AssignAll(0)
    /\ call' = FreshCall("clear")
    /\ base' = [op |-> "clear", value |-> 0]
    /\ over' = <<>>
    /\ UNCHANGED <<pc, level, channel_counter, gsclk_counter, bit, idx, ret>>

(* ------------------------------------------------------------------ *)
(* update()                                                            *)
(* ------------------------------------------------------------------ *)

\* mutant: the 12 bits are taken from the top of the u16 (bits 15..4)
get_pin_value_left_aligned(vals, channel, b) ==
    IF Shr(BitAnd(vals[channel], Shl(1, b + 4)), b + 4) = 0 THEN Low ELSE High

\* mutant: the mask walks the value from its least significant bit
get_pin_value_lsb_first(vals, channel, b) ==
    IF Shr(BitAnd(vals[channel], Shl(1, (BitsPerChannel - 1) - b)),
           (BitsPerChannel - 1) - b) = 0
    THEN Low ELSE High

\* match (self.values[channel] & (1 << bit)) >> bit == 0 { true => Low, false => High }
get_pin_value_for_channel(vals, channel, b) ==
    IF Shr(BitAnd(vals[channel], Shl(1, b)), b) = 0 THEN Low ELSE High

\* mutant: if channel_counter > 0
LoopHeadCursorOffByOne(cc, gc) ==
    IF gc < GsclkCycle
    THEN IF cc > 0 THEN "shift_sin" ELSE "fill_sin"
    ELSE "post_blank"

\* mutant: while gsclk_counter <= 4096
LoopHeadOffByOne(cc, gc) ==
    IF gc <= GsclkCycle
    THEN IF cc >= 0 THEN "shift_sin" ELSE "fill_sin"
    ELSE "post_blank"

\* while gsclk_counter < 4096 { if channel_counter >= 0 { for .. } else { .. } }
\* and, past the loop, self.update_post()
LoopHead(cc, gc) ==
    IF gc < GsclkCycle
    THEN IF cc >= 0 THEN "shift_sin" ELSE "fill_sin"
    ELSE "post_blank"

\* self.values.len()
ValuesLen == Cardinality(DOMAIN values)

\* the call returns: its locals are gone
Locals(cc, gc, b) ==
    /\ channel_counter' = IF pc' = "idle" THEN 0 ELSE cc
    /\ gsclk_counter' = IF pc' = "idle" THEN 0 ELSE gc
    /\ bit' = IF pc' = "idle" THEN 0 ELSE b

Failed(ok, p, l) == IF ok THEN ret ELSE Err(PinError(p, l))

\* mutant: after a failed update() the two counters are picked up where
\* they were left instead of being set again
UpdateInitResuming ==
    /\ pc = "idle"
    /\ \E ok \in BOOLEAN :
        LET cc == IF ret.kind = "Err" THEN channel_counter ELSE ValuesLen - 1
            gc == IF ret.kind = "Err" THEN gsclk_counter ELSE 0
        IN
        /\ set_low(FreshCall("update"), "blank", ok)
        /\ pc' = Try(ok, LoopHead(cc, gc), "idle")
        /\ ret' = IF ok THEN NoResult ELSE Err(PinError("blank", Low))
        /\ Locals(cc, gc, BitsPerChannel - 1)
    /\ UNCHANGED <<values, idx, base, over>>

\* self.update_init()?: self.blank.set_low(); then the two counters are set
UpdateInit ==
    /\ pc = "idle"
    /\ \E ok \in BOOLEAN :
        /\ set_low(FreshCall("update"), "blank", ok)
        /\ pc' = Try(ok, LoopHead(ValuesLen - 1, 0), "idle")
        /\ ret' = IF ok THEN NoResult ELSE Err(PinError("blank", Low))
        /\ Locals(ValuesLen - 1, 0, BitsPerChannel - 1)
    /\ UNCHANGED <<values, idx, base, over>>

\* mutant: the bit is shifted out of the buffer as it is presented
ShiftSinConsuming ==
    /\ pc = "shift_sin"
    /\ \E ok \in BOOLEAN :
        LET val == get_pin_value_for_channel(values, channel_counter, bit) IN
        /\ set_value(call, "sin", val, ok)
        /\ pc' = Try(ok, "shift_sclk_high", "idle")
        /\ ret' = Failed(ok, "sin", val)
        /\ Locals(channel_counter, gsclk_counter, bit)
    /\ values' = [values EXCEPT ![channel_counter] =
                    @ - BitAnd(@, Shl(1, bit))]
    /\ UNCHANGED <<idx, base, over>>

\* let val = self.get_pin_value_for_channel(channel_counter as usize, i);
\* self.sin.set_value(val)?
ShiftSin ==
    /\ pc = "shift_sin"
    /\ \E ok \in BOOLEAN :
        LET val == get_pin_value_for_channel(values, channel_counter, bit) IN
        /\ set_value(call, "sin", val, ok)
        /\ pc' = Try(ok, "shift_sclk_high", "idle")
        /\ ret' = Failed(ok, "sin", val)
        /\ Locals(channel_counter, gsclk_counter, bit)
    /\ UNCHANGED <<values, idx, base, over>>

\* mutant: the first pulse of a bit raises the grayscale clock, not the
\* serial clock
ShiftSclkHighAfterGsclk ==
    /\ pc = "shift_sclk_high"
    /\ \E ok \in BOOLEAN :
        /\ pulse_set_high(call, "gsclk", ok)
        /\ pc' = Try(ok, "shift_sclk_low", "idle")
        /\ ret' = Failed(ok, "gsclk", High)
        /\ Locals(channel_counter, gsclk_counter, bit)
    /\ UNCHANGED <<values, idx, base, over>>

\* self.sclk.pulse()?: self.set_high()?
ShiftSclkHigh ==
    /\ pc = "shift_sclk_high"
    /\ \E ok \in BOOLEAN :
        /\ pulse_set_high(call, "sclk", ok)
        /\ pc' = Try(ok, "shift_sclk_low", "idle")
        /\ ret' = Failed(ok, "sclk", High)
        /\ Locals(channel_counter, gsclk_counter, bit)
    /\ UNCHANGED <<values, idx, base, over>>

\* self.sclk.pulse()?: self.set_low()
ShiftSclkLow ==
    /\ pc = "shift_sclk_low"
    /\ \E ok \in BOOLEAN :
        /\ pulse_set_low(call, "sclk", ok)
        /\ pc' = Try(ok, "shift_gsclk_high", "idle")
        /\ ret' = Failed(ok, "sclk", Low)
        /\ Locals(channel_counter, gsclk_counter, bit)
    /\ UNCHANGED <<values, idx, base, over>>

\* self.gsclk.pulse()?: self.set_high()?
ShiftGsclkHigh ==
    /\ pc = "shift_gsclk_high"
    /\ \E ok \in BOOLEAN :
        /\ pulse_set_high(call, "gsclk", ok)
        /\ pc' = Try(ok, "shift_gsclk_low", "idle")
        /\ ret' = Failed(ok, "gsclk", High)
        /\ Locals(channel_counter, gsclk_counter, bit)
    /\ UNCHANGED <<values, idx, base, over>>

\* self.gsclk.pulse()?: self.set_low(); gsclk_counter += 1; the for loop
\* steps i down and, past i = 0, channel_counter -= 1 and the while loop
\* tests its condition again
ShiftGsclkLow ==
    /\ pc = "shift_gsclk_low"
    /\ \E ok \in BOOLEAN :
        LET gc == gsclk_counter + 1
            cc == IF bit = 0 THEN channel_counter - 1 ELSE channel_counter
            b == IF bit = 0 THEN BitsPerChannel - 1 ELSE bit - 1
        IN
        /\ pulse_set_low(call, "gsclk", ok)
        /\ pc' = Try(ok, IF bit = 0 THEN LoopHead(cc, gc) ELSE "shift_sin", "idle")
        /\ ret' = Failed(ok, "gsclk", Low)
        /\ IF ok THEN Locals(cc, gc, b)
                 ELSE Locals(channel_counter, gsclk_counter, bit)
    /\ UNCHANGED <<values, idx, base, over>>

\* mutant: the else branch drives the data pin high
FillSinDrivenHigh ==
    /\ pc = "fill_sin"
    /\ \E ok \in BOOLEAN :
        /\ set_high(call, "sin", ok)
        /\ pc' = Try(ok, "fill_gsclk_high", "idle")
        /\ ret' = Failed(ok, "sin", High)
        /\ Locals(channel_counter, gsclk_counter, bit)
    /\ UNCHANGED <<values, idx, base, over>>

\* else branch: self.sin.set_low()?
FillSin ==
    /\ pc = "fill_sin"
    /\ \E ok \in BOOLEAN :
        /\ set_low(call, "sin", ok)
        /\ pc' = Try(ok, "fill_gsclk_high", "idle")
        /\ ret' = Failed(ok, "sin", Low)
        /\ Locals(channel_counter, gsclk_counter, bit)
    /\ UNCHANGED <<values, idx, base, over>>

\* mutant: a failing grayscale-clock rise is rolled back by raising blank
FillGsclkHighRestoringBlank ==
    /\ pc = "fill_gsclk_high"
    /\ \E ok \in BOOLEAN :
        /\ IF ok
           THEN pulse_set_high(call, "gsclk", ok)
           ELSE set_high(Record(call, "gsclk", High, FALSE), "blank", TRUE)
        /\ pc' = Try(ok, "fill_gsclk_low", "idle")
        /\ ret' = Failed(ok, "gsclk", High)
        /\ Locals(channel_counter, gsclk_counter, bit)
    /\ UNCHANGED <<values, idx, base, over>>

\* else branch: self.gsclk.pulse()?: self.set_high()?
FillGsclkHigh ==
    /\ pc = "fill_gsclk_high"
    /\ \E ok \in BOOLEAN :
        /\ pulse_set_high(call, "gsclk", ok)
        /\ pc' = Try(ok, "fill_gsclk_low", "idle")
        /\ ret' = Failed(ok, "gsclk", High)
        /\ Locals(channel_counter, gsclk_counter, bit)
    /\ UNCHANGED <<values, idx, base, over>>

\* else branch: self.gsclk.pulse()?: self.set_low(); gsclk_counter += 1
FillGsclkLow ==
    /\ pc = "fill_gsclk_low"
    /\ \E ok \in BOOLEAN :
        /\ pulse_set_low(call, "gsclk", ok)
        /\ pc' = Try(ok, LoopHead(channel_counter, gsclk_counter + 1), "idle")
        /\ ret' = Failed(ok, "gsclk", Low)
        /\ IF ok THEN Locals(channel_counter, gsclk_counter + 1, bit)
                 ELSE Locals(channel_counter, gsclk_counter, bit)
    /\ UNCHANGED <<values, idx, base, over>>

\* mutant: update_post leaves blank low
PostBlankDrivenLow ==
    /\ pc = "post_blank"
    /\ \E ok \in BOOLEAN :
        /\ set_low(call, "blank", ok)
        /\ pc' = Try(ok, "post_xlat_high", "idle")
        /\ ret' = Failed(ok, "blank", Low)
        /\ Locals(channel_counter, gsclk_counter, bit)
    /\ UNCHANGED <<values, idx, base, over>>

\* update_post: self.blank.set_high()?
PostBlankHigh ==
    /\ pc = "post_blank"
    /\ \E ok \in BOOLEAN :
        /\ set_high(call, "blank", ok)
        /\ pc' = Try(ok, "post_xlat_high", "idle")
        /\ ret' = Failed(ok, "blank", High)
        /\ Locals(channel_counter, gsclk_counter, bit)
    /\ UNCHANGED <<values, idx, base, over>>

\* update_post: self.xlat.pulse()?: self.set_high()?
PostXlatHigh ==
    /\ pc = "post_xlat_high"
    /\ \E ok \in BOOLEAN :
        /\ pulse_set_high(call, "xlat", ok)
        /\ pc' = Try(ok, "post_xlat_low", "idle")
        /\ ret' = Failed(ok, "xlat", High)
        /\ Locals(channel_counter, gsclk_counter, bit)
    /\ UNCHANGED <<values, idx, base, over>>

\* mutant: the latch pulse has no falling edge, update() returns Ok(())
PostXlatLeftHigh ==
    /\ pc = "post_xlat_low"
    /\ pc' = "idle"
    /\ ret' = Ok
    /\ Locals(channel_counter, gsclk_counter, bit)
    /\ UNCHANGED <<level, call, values, idx, base, over>>

\* update_post: self.xlat.pulse()?: self.set_low(); Ok(())
PostXlatLow ==
    /\ pc = "post_xlat_low"
    /\ \E ok \in BOOLEAN :
        /\ pulse_set_low(call, "xlat", ok)
        /\ pc' = Try(ok, "idle", "idle")
        /\ ret' = IF ok THEN Ok ELSE Err(PinError("xlat", Low))
        /\ Locals(channel_counter, gsclk_counter, bit)
    /\ UNCHANGED <<values, idx, base, over>>

(* ------------------------------------------------------------------ *)
(* The program                                                         *)
(* ------------------------------------------------------------------ *)

SetChannel == \E ch \in InputChannels, v \in InputValues : set_channel(ch, v)
SetAll == \E v \in InputValues : set_all(v)
Clear == clear

Next ==
    \/ NewSetLow
    \/ NewBlankHigh
    \/ SetChannel
    \/ SetAll
    \/ Clear
    \/ UpdateInit
    \/ ShiftSin
    \/ ShiftSclkHigh
    \/ ShiftSclkLow
    \/ ShiftGsclkHigh
    \/ ShiftGsclkLow
    \/ FillSin
    \/ FillGsclkHigh
    \/ FillGsclkLow
    \/ PostBlankHigh
    \/ PostXlatHigh
    \/ PostXlatLow

Spec == Init /\ [][Next]_vars

\* update() runs synchronously: once called, its next pin write is made
UpdateRun ==
    \/ ShiftSin
    \/ ShiftSclkHigh
    \/ ShiftSclkLow
    \/ ShiftGsclkHigh
    \/ ShiftGsclkLow
    \/ FillSin
    \/ FillGsclkHigh
    \/ FillGsclkLow
    \/ PostBlankHigh
    \/ PostXlatHigh
    \/ PostXlatLow

FairSpec == Spec /\ WF_vars(UpdateRun)

(* ------------------------------------------------------------------ *)
(* Vocabulary of the properties                                        *)
(* ------------------------------------------------------------------ *)

InUpdate == call.op = "update"

\* update() has returned and no operation was called since
UpdateReturned == InUpdate /\ pc = "idle"

\* no pin write of the operation has failed
AllWritesOk == call.fault = NoFault

NthLast(n) == call.recent[Len(call.recent) - n]
LastWrite == NthLast(0)
JustWrote(p, l) == Len(call.recent) >= 1 /\ LastWrite = <<p, l>>

Writes(p) == call.wr[p][Low] + call.wr[p][High]

\* bit b of x, by arithmetic
BitOf(x, b) == (x \div Pow2(b)) % 2
LevelOf(x, b) == IF BitOf(x, b) = 1 THEN High ELSE Low

(* ------------------------------------------------------------------ *)
(* C1                                                                  *)
(* ------------------------------------------------------------------ *)

\* C1: an update() in which every pin write succeeds returns Ok and has
\* issued exactly 4096 grayscale-clock pulses, 192 serial-clock pulses and
\* 1 latch pulse, with no other write on these three pins.
C1_PulseCounts ==
    (UpdateReturned /\ AllWritesOk) =>
        /\ ret = Ok
        /\ call.pulses["gsclk"] = 4096
        /\ call.wr["gsclk"] = [l \in GpioValue |-> 4096]
        /\ call.pulses["sclk"] = 192
        /\ call.wr["sclk"] = [l \in GpioValue |-> 192]
        /\ call.pulses["xlat"] = 1
        /\ call.wr["xlat"] = [l \in GpioValue |-> 1]

\* a successful update() of a buffer with two different colours has returned
C1_Witness ==
    /\ UpdateReturned /\ AllWritesOk
    /\ values[0] = 2643 /\ values[3] = 62892

(* ------------------------------------------------------------------ *)
(* C2                                                                  *)
(* ------------------------------------------------------------------ *)

\* C2: when the serial clock rises for the k-th time in an update()
\* (k = 0..191), the write just before it drove the data pin to bit
\* 11 - k mod 12 of values[15 - k div 12], and the data pin holds that level.
C2_DataBitOrder ==
    (InUpdate /\ JustWrote("sclk", High)) =>
        LET k == call.pulses["sclk"]
            lvl == LevelOf(values[15 - (k \div 12)], 11 - (k % 12))
        IN /\ k \in 0 .. 191
           /\ Len(call.recent) >= 2
           /\ NthLast(1) = <<"sin", lvl>>
           /\ level["sin"] = lvl

\* the serial clock rises on the last bit (bit 0 of channel 0), which is 1,
\* in a buffer whose channel 3 holds another colour
C2_Witness ==
    /\ InUpdate /\ pc = "shift_sclk_low"
    /\ call.pulses["sclk"] = 191
    /\ values[0] = 2643 /\ values[3] = 62892
    /\ level["sin"] = High

(* ------------------------------------------------------------------ *)
(* C3                                                                  *)
(* ------------------------------------------------------------------ *)

\* C3: in an update() without a failing write, blank is driven low by the
\* first write of the call, driven high once and only after the 4096
\* grayscale pulses, the latch is written only after that, and the call
\* ends with blank high, latch high, latch low as its last three writes.
C3_BlankAndLatchOrder ==
    (InUpdate /\ AllWritesOk) =>
        /\ call.nWrites >= 1 => call.wr["blank"][Low] = 1
        /\ call.nWrites = 1 => call.recent = << <<"blank", Low>> >>
        /\ call.wr["blank"][High] <= 1
        /\ call.wr["blank"][High] = 1 =>
              /\ call.pulses["gsclk"] = 4096
              /\ call.wr["gsclk"][High] = 4096
        /\ Writes("xlat") > 0 => call.wr["blank"][High] = 1
        /\ pc = "idle" =>
              /\ Writes("blank") = 2
              /\ call.wr["blank"][High] = 1
              /\ call.pulses["xlat"] = 1
              /\ Len(call.recent) >= 3
              /\ NthLast(2) = <<"blank", High>>
              /\ NthLast(1) = <<"xlat", High>>
              /\ NthLast(0) = <<"xlat", Low>>

\* the latch has just fallen at the end of a successful update()
C3_Witness ==
    /\ UpdateReturned /\ AllWritesOk
    /\ JustWrote("xlat", Low)
    /\ call.wr["blank"] = [l \in GpioValue |-> 1]

(* ------------------------------------------------------------------ *)
(* C4                                                                  *)
(* ------------------------------------------------------------------ *)

\* the n-th pin write (n = 1..12676) of an update() of buffer b in which no
\* write fails, as the protocol description gives it
ExpectedWrite(b, n) ==
    IF n = 1 THEN <<"blank", Low>>
    ELSE IF n <= 961 THEN
        LET k == (n - 2) \div 5
            r == (n - 2) % 5
        IN CASE r = 0 -> <<"sin", LevelOf(b[15 - (k \div 12)], 11 - (k % 12))>>
             [] r = 1 -> <<"sclk", High>>
             [] r = 2 -> <<"sclk", Low>>
             [] r = 3 -> <<"gsclk", High>>
             [] r = 4 -> <<"gsclk", Low>>
    ELSE IF n <= 12673 THEN
        LET r == (n - 962) % 3
        IN CASE r = 0 -> <<"sin", Low>>
             [] r = 1 -> <<"gsclk", High>>
             [] r = 2 -> <<"gsclk", Low>>
    ELSE IF n = 12674 THEN <<"blank", High>>
    ELSE IF n = 12675 THEN <<"xlat", High>>
    ELSE IF n = 12676 THEN <<"xlat", Low>>
    ELSE <<"none", Low>>

\* C4: every write of an update() is the next write of the failure-free
\* sequence; when a write fails, it is the next one of that sequence,
\* update() has returned exactly its error, no pin write was attempted
\* after it, and a failure in the transfer phase (writes 2..12673) leaves
\* blank-high and the latch unwritten.
C4_FailFast ==
    InUpdate =>
        /\ call.nWrites >= 1 => LastWrite = ExpectedWrite(values, call.nWrites)
        /\ ~AllWritesOk =>
              /\ pc = "idle"
              /\ ret = Err(PinError(call.fault[1], call.fault[2]))
              /\ call.fault = ExpectedWrite(values, call.nWrites + 1)
              /\ call.late = 0
              /\ call.attempts = call.nWrites + 1
              /\ (call.nWrites + 1) \in 2 .. 12673 =>
                    /\ call.wr["blank"][High] = 0
                    /\ Writes("xlat") = 0

\* update() has returned the error of the 4000th grayscale-clock fall
C4_Witness ==
    /\ UpdateReturned
    /\ call.fault = <<"gsclk", Low>>
    /\ call.pulses["gsclk"] = 3999
    /\ ret = Err(PinError("gsclk", Low))

(* ------------------------------------------------------------------ *)
(* C5                                                                  *)
(* ------------------------------------------------------------------ *)

\* the pin writes of a new() in which no write fails
NewTrace ==
    << <<"sin", Low>>, <<"sclk", Low>>, <<"xlat", Low>>, <<"gsclk", Low>>,
       <<"blank", High>> >>

\* C5: while no write of new() fails its writes are, in order, data low,
\* serial clock low, latch low, grayscale clock low, blank high; after the
\* fifth it has returned Ok with a controller (a 16-slot buffer).
C5_NewOrder ==
    (call.op = "new" /\ AllWritesOk) =>
        /\ call.nWrites <= 5
        /\ call.attempts = call.nWrites
        /\ call.nWrites <= Window =>
              call.recent = SubSeq(NewTrace, 1, call.nWrites)
        /\ pc \in {"new_low", "new_blank", "idle"}
        /\ pc = "idle" <=> call.nWrites = 5
        /\ pc = "idle" => ret = Ok /\ DOMAIN values = 0 .. 15

\* new() has returned a controller
C5_Witness ==
    /\ call.op = "new" /\ pc = "idle" /\ ret = Ok
    /\ level["blank"] = High /\ level["gsclk"] = Low

(* ------------------------------------------------------------------ *)
(* C6                                                                  *)
(* ------------------------------------------------------------------ *)

\* C6: when the k-th write of new() fails (k = 1..4 the set_low of data,
\* serial clock, latch, grayscale clock; k = 5 the set_high of blank),
\* new() has returned that error without a controller, exactly the k - 1
\* writes before it were made, and the k-th and later pins, blank among
\* them, were never written.
C6_NewFailure ==
    (call.op = "new" /\ ~AllWritesOk) =>
        LET k == call.nWrites + 1 IN
        /\ k \in 1 .. 5
        /\ call.fault = NewTrace[k]
        /\ pc = "no_controller"
        /\ ret = Err(PinError(NewTrace[k][1], NewTrace[k][2]))
        /\ values = <<>>
        /\ call.late = 0
        /\ call.attempts = k
        /\ k - 1 <= Window => call.recent = SubSeq(NewTrace, 1, k - 1)
        /\ \A j \in k .. 5 :
              /\ level[NewTrace[j][1]] = Unset
              /\ Writes(NewTrace[j][1]) = 0

\* new() has returned the error of the latch's set_low
C6_Witness ==
    /\ call.op = "new" /\ pc = "no_controller"
    /\ call.fault = <<"xlat", Low>>
    /\ level["sclk"] = Low /\ level["blank"] = Unset

(* ------------------------------------------------------------------ *)
(* C7                                                                  *)
(* ------------------------------------------------------------------ *)

\* the pins update() drives through pulse()
PulsePins == {"sclk", "gsclk", "xlat"}

\* C7: on a pulsed pin every set_low directly follows a set_high of the same
\* pin; when the set_high fails, its error is returned and no set_low
\* follows; when the set_low fails, its error is returned and the last
\* level written to the pin is high.
C7_Pulse ==
    InUpdate =>
        \A p \in PulsePins :
            /\ JustWrote(p, Low) =>
                  Len(call.recent) >= 2 /\ NthLast(1) = <<p, High>>
            /\ call.pulses[p] = call.wr[p][Low]
            /\ (call.wr[p][High] - call.wr[p][Low]) \in {0, 1}
            /\ call.fault = <<p, High>> =>
                  /\ ret = Err(PinError(p, High))
                  /\ call.wr[p][Low] = call.wr[p][High]
                  /\ call.late = 0
            /\ call.fault = <<p, Low>> =>
                  /\ ret = Err(PinError(p, Low))
                  /\ JustWrote(p, High)
                  /\ level[p] = High
                  /\ call.wr[p][High] = call.wr[p][Low] + 1
                  /\ call.late = 0

\* a pulse of the serial clock has failed to lower the pin
C7_Witness ==
    /\ UpdateReturned
    /\ call.fault = <<"sclk", Low>>
    /\ level["sclk"] = High
    /\ call.pulses["sclk"] = 100

(* ------------------------------------------------------------------ *)
(* C8                                                                  *)
(* ------------------------------------------------------------------ *)

\* C8: in an update() that follows clear() with no other setter between,
\* the data pin is low at every rise of the serial clock and is never driven
\* high; a successful one has clocked 192 bits that way.
C8_ClearThenUpdate ==
    (InUpdate /\ base.op = "clear" /\ over = <<>>) =>
        /\ JustWrote("sclk", High) =>
              /\ level["sin"] = Low
              /\ Len(call.recent) >= 2
              /\ NthLast(1) = <<"sin", Low>>
        /\ call.wr["sin"][High] = 0
        /\ (pc = "idle" /\ AllWritesOk) => call.pulses["sclk"] = 192

\* a successful update() after clear() has returned
C8_Witness ==
    /\ UpdateReturned /\ AllWritesOk
    /\ base.op = "clear" /\ over = <<>>
    /\ call.pulses["sclk"] = 192
    /\ call.wr["sin"][Low] > 192

(* ------------------------------------------------------------------ *)
(* C9                                                                  *)
(* ------------------------------------------------------------------ *)

\* the buffer the setter calls made so far describe: the colour of the last
\* whole-buffer assignment, overlaid with the set_channel calls since
Described ==
    [c \in 0 .. 15 |-> IF c \in DOMAIN over THEN over[c] ELSE base.value]

\* C9: the buffer always holds, slot by slot, what the setter calls describe
\* (set_channel(i, w) changes slot i alone), and an update() after set_all(v)
\* and set_channel(i, w) presents, at each rise of the serial clock, the
\* bit of w's low 12 bits for channel i and of v's low 12 bits for the others.
C9_SetChannelFrame ==
    /\ pc \notin {"new_low", "new_blank", "no_controller"} => values = Described
    /\ (InUpdate /\ base.op = "set_all" /\ over # <<>>
          /\ JustWrote("sclk", High)) =>
          LET k == call.pulses["sclk"]
              c == 15 - (k \div 12)
              colour == IF c \in DOMAIN over THEN over[c] ELSE base.value
          IN level["sin"] = LevelOf(colour % 4096, 11 - (k % 12))

\* after set_all(0x0A53) and set_channel(3, 0xF5AC) the serial clock rises on
\* bit 11 of channel 3, which is 0 in 0xF5AC and 1 in 0x0A53
C9_Witness ==
    /\ InUpdate /\ JustWrote("sclk", High)
    /\ base = [op |-> "set_all", value |-> 2643]
    /\ DOMAIN over = {3} /\ over[3] = 62892
    /\ call.pulses["sclk"] = 144
    /\ level["sin"] = Low

(* ------------------------------------------------------------------ *)
(* C10                                                                 *)
(* ------------------------------------------------------------------ *)

\* buffer b with bits 12..15 of every slot replaced by the four bits of m
WithHighBits(b, m) == [c \in DOMAIN b |-> (b[c] % 4096) + 4096 * m]

\* C10: whatever bits 12..15 of the slots hold, update() makes the same
\* writes: the level it is about to give the data pin, and every write it
\* has made, are those of each buffer that agrees with this one on the low
\* 12 bits of every channel.
C10_HighBitsIgnored ==
    InUpdate =>
        \A m \in 0 .. 15 :
            /\ pc = "shift_sin" =>
                  get_pin_value_for_channel(WithHighBits(values, m),
                                            channel_counter, bit)
                    = get_pin_value_for_channel(values, channel_counter, bit)
            /\ call.nWrites >= 1 =>
                  LastWrite = ExpectedWrite(WithHighBits(values, m),
                                            call.nWrites)

\* update() is about to present bit 11 of a slot holding 0xF5AC
C10_Witness ==
    /\ InUpdate /\ pc = "shift_sin"
    /\ bit = 11
    /\ values[channel_counter] = 62892

(* ------------------------------------------------------------------ *)
(* C11                                                                 *)
(* ------------------------------------------------------------------ *)

\* the positions of the program inside update()
UpdatePcs ==
    {"shift_sin", "shift_sclk_high", "shift_sclk_low", "shift_gsclk_high",
     "shift_gsclk_low", "fill_sin", "fill_gsclk_high", "fill_gsclk_low",
     "post_blank", "post_xlat_high", "post_xlat_low"}

\* this step is a pin write of update(), the first one included
UpdateStep == pc \in UpdatePcs \/ (pc = "idle" /\ call'.op = "update")

\* C11: no step of update(), succeeding or failing, changes the buffer, and
\* the writes of every update(), the first or a later one, are those of the
\* failure-free sequence for the buffer the setter calls before it
\* described: with no setter between them two updates write the same.
C11_UpdateKeepsBuffer ==
    /\ [][UpdateStep => values' = values]_vars
    /\ [](InUpdate /\ call.nWrites >= 1 =>
            LastWrite = ExpectedWrite(Described, call.nWrites))

\* update() has returned Ok and the buffer still holds the two colours the
\* setters gave it
C11_Witness ==
    /\ UpdateReturned /\ ret = Ok
    /\ call.nWrites = 12676
    /\ base.value = 62892 /\ DOMAIN over = {3}
    /\ values[3] = 2643 /\ values[15] = 62892

(* ------------------------------------------------------------------ *)
(* C12                                                                 *)
(* ------------------------------------------------------------------ *)

\* C12: the update() called after a failed update() starts over: its first
\* attempt is the blank-low write and, that done, the cursor is 15, the
\* counter 0 and the first bit of channel 15 is next; throughout every
\* update() the counter equals the grayscale pulses of this call alone and
\* each write is the one the failure-free sequence has at that place.
C12_RetryFromStart ==
    /\ [][(UpdateReturned /\ ~AllWritesOk /\ call'.op = "update") =>
            /\ call'.attempts = 1
            /\ call'.nWrites = 1 =>
                  /\ call'.recent = << <<"blank", Low>> >>
                  /\ call'.fault = NoFault
                  /\ channel_counter' = 15
                  /\ gsclk_counter' = 0
                  /\ bit' = 11
                  /\ pc' = "shift_sin"]_vars
    /\ []((InUpdate /\ pc \in UpdatePcs) =>
            /\ gsclk_counter = call.pulses["gsclk"]
            /\ call.nWrites >= 1
            /\ LastWrite = ExpectedWrite(values, call.nWrites))

\* update() runs again after an update() that failed to lower the serial
\* clock: blank is low again and the serial clock is still high
C12_Witness ==
    /\ InUpdate /\ pc = "shift_sin"
    /\ call.nWrites = 1
    /\ level["sclk"] = High
    /\ channel_counter = 15 /\ gsclk_counter = 0

(* ------------------------------------------------------------------ *)
(* C13                                                                 *)
(* ------------------------------------------------------------------ *)

\* C13: the controller new() returns holds 0 in all 16 slots, and an
\* update() with no setter call since new() never drives the data pin high:
\* it is low at each rise of the serial clock, 192 of them when it succeeds.
C13_NewZeroBuffer ==
    /\ (call.op = "new" /\ pc = "idle") => values = [c \in 0 .. 15 |-> 0]
    /\ (InUpdate /\ base.op = "new" /\ over = <<>>) =>
          /\ JustWrote("sclk", High) =>
                /\ level["sin"] = Low
                /\ Len(call.recent) >= 2
                /\ NthLast(1) = <<"sin", Low>>
          /\ call.wr["sin"][High] = 0
          /\ (pc = "idle" /\ AllWritesOk) => call.pulses["sclk"] = 192

\* a successful update() of the buffer new() made has returned
C13_Witness ==
    /\ UpdateReturned /\ AllWritesOk
    /\ base.op = "new" /\ over = <<>>
    /\ call.pulses["sclk"] = 192
    /\ call.wr["sin"] = [l \in GpioValue |-> IF l = Low THEN 4096 ELSE 0]

(* ------------------------------------------------------------------ *)
(* C14                                                                 *)
(* ------------------------------------------------------------------ *)

\* C14: once 192 grayscale-clock pulses of an update() are complete the
\* serial clock has its 192 pulses and is not written again, and every later
\* rise of the grayscale clock directly follows a set_low of the data pin;
\* a successful update() makes 3904 such pulses.
C14_GrayscaleOnlyPhase ==
    (InUpdate /\ call.pulses["gsclk"] >= 192) =>
        /\ call.wr["sclk"] = [l \in GpioValue |-> 192]
        /\ JustWrote("gsclk", High) =>
              /\ Len(call.recent) >= 2
              /\ NthLast(1) = <<"sin", Low>>
        /\ Writes("sin") >= 192 =>
              call.wr["gsclk"][High] <= Writes("sin")
        /\ (pc = "idle" /\ AllWritesOk) =>
              /\ call.pulses["gsclk"] - 192 = 3904
              /\ Writes("sin") = 192 + 3904

\* the grayscale clock rises for the last of the 3904 data-less pulses
C14_Witness ==
    /\ InUpdate /\ pc = "fill_gsclk_low"
    /\ JustWrote("gsclk", High)
    /\ call.pulses["gsclk"] = 4095
    /\ call.pulses["sclk"] = 192

(* ------------------------------------------------------------------ *)
(* C15                                                                 *)
(* ------------------------------------------------------------------ *)

\* C15: each of the first 192 grayscale-clock pulses of an update() ends a
\* run of exactly five writes: data pin to the bit, serial clock high,
\* serial clock low, grayscale clock high, grayscale clock low; the k-th
\* grayscale pulse starts only after the k-th serial pulse is complete, and
\* while data is shifted the complete grayscale pulses never outnumber the
\* complete serial pulses.
C15_ShiftOrder ==
    InUpdate =>
        /\ (JustWrote("gsclk", Low) /\ call.pulses["gsclk"] <= 192) =>
              LET k == call.pulses["gsclk"] - 1 IN
              /\ Len(call.recent) >= 5
              /\ NthLast(4) =
                    <<"sin", LevelOf(values[15 - (k \div 12)], 11 - (k % 12))>>
              /\ NthLast(3) = <<"sclk", High>>
              /\ NthLast(2) = <<"sclk", Low>>
              /\ NthLast(1) = <<"gsclk", High>>
              /\ call.nWrites = 1 + 5 * (k + 1)
        /\ call.wr["gsclk"][High] <= 192 =>
              call.wr["gsclk"][High] <= call.pulses["sclk"]
        /\ call.pulses["sclk"] < 192 =>
              call.pulses["gsclk"] <= call.pulses["sclk"]

\* the 100th bit has been clocked: its five writes are the last five
C15_Witness ==
    /\ InUpdate /\ JustWrote("gsclk", Low)
    /\ call.pulses["gsclk"] = 100
    /\ call.pulses["sclk"] = 100
    /\ NthLast(4) = <<"sin", High>>

(* ------------------------------------------------------------------ *)
(* C16                                                                 *)
(* ------------------------------------------------------------------ *)

FillPcs == {"fill_sin", "fill_gsclk_high", "fill_gsclk_low"}
PostPcs == {"post_blank", "post_xlat_high", "post_xlat_low"}

\* C16: inside update() the counter stays in 0..4096 and the cursor in
\* -1..15; the cursor becomes -1 with the counter at exactly 192; the commit
\* phase is entered with the counter at exactly 4096; an update() that has
\* returned without a failed write made all its 12676 writes; and every
\* update() that was called returns.
C16_Terminates ==
    /\ [](pc \in UpdatePcs =>
            /\ gsclk_counter \in 0 .. 4096
            /\ channel_counter \in -1 .. 15
            /\ bit \in 0 .. 11
            /\ channel_counter >= 0 =>
                  gsclk_counter = 12 * (15 - channel_counter) + (11 - bit)
            /\ pc \in FillPcs =>
                  channel_counter = -1 /\ gsclk_counter \in 192 .. 4095
            /\ pc \in PostPcs =>
                  channel_counter = -1 /\ gsclk_counter = 4096)
    /\ [][(channel_counter >= 0 /\ channel_counter' = -1) =>
            gsclk_counter' = 192]_vars
    /\ []((UpdateReturned /\ AllWritesOk) =>
            ret = Ok /\ call.nWrites = 12676)
    /\ (pc \in UpdatePcs ~> pc = "idle")

\* the commit phase is entered
C16_Witness ==
    /\ InUpdate /\ pc = "post_blank"
    /\ gsclk_counter = 4096 /\ channel_counter = -1
    /\ AllWritesOk

(* ------------------------------------------------------------------ *)
(* C17                                                                 *)
(* ------------------------------------------------------------------ *)

\* C17: when a write of the transfer phase (writes 2..12673) or the
\* blank-high write of the commit phase (write 12674) of an update() fails,
\* update() has returned the error, the last level successfully written to
\* blank is low, and blank was written exactly once in the call (low, by
\* update_init): no write restores it.
C17_BlankLeftLow ==
    (InUpdate /\ ~AllWritesOk /\ (call.nWrites + 1) \in 2 .. 12674) =>
        /\ pc = "idle"
        /\ ret.kind = "Err"
        /\ level["blank"] = Low
        /\ call.wr["blank"] = [l \in GpioValue |-> IF l = Low THEN 1 ELSE 0]
        /\ call.late = 0

\* update() has returned the error of the blank-high write of the commit
C17_Witness ==
    /\ UpdateReturned
    /\ call.fault = <<"blank", High>>
    /\ call.nWrites = 12673
    /\ level["blank"] = Low

(* ------------------------------------------------------------------ *)
(* C18                                                                 *)
(* ------------------------------------------------------------------ *)

Setters == {"set_channel", "set_all", "clear"}

\* C18: a set_channel() whose index is outside 0..15 panics on the index:
\* the step into the panic changes no slot and no pin level and attempts no
\* pin write; the buffer of a constructed controller has exactly the 16
\* slots 0..15, before and after, holding what the earlier setters stored.
C18_SetChannelOutOfRange ==
    /\ [][pc' = "panicked" =>
            /\ call'.op = "set_channel"
            /\ values' = values
            /\ level' = level
            /\ call'.attempts = 0]_vars
    /\ [](pc \in UpdatePcs \cup {"idle", "panicked"} =>
            /\ DOMAIN values = Channels
            /\ DOMAIN over \subseteq Channels)
    /\ [](pc = "panicked" => values = Described /\ call.nWrites = 0)

\* set_channel(16, _) has panicked after set_channel(3, 0x0A53) was stored
C18_Witness ==
    /\ pc = "panicked"
    /\ 3 \in DOMAIN over
    /\ values[3] = 2643
    /\ values[15] # 2643

(* ------------------------------------------------------------------ *)
(* C19                                                                 *)
(* ------------------------------------------------------------------ *)

\* the levels new() establishes
IdleLevels == [p \in Pins |-> IF p = "blank" THEN High ELSE Low]

\* C19: whenever no operation is in progress and the last of new() /
\* update() to have run returned Ok, the last level written to data,
\* serial clock, latch and grayscale clock is low and to blank is high.
C19_IdleLevels ==
    (pc = "idle" /\ ret = Ok) => level = IdleLevels

\* a successful update() of a buffer holding 0x0A53 in channel 3 has returned
C19_Witness ==
    /\ UpdateReturned /\ ret = Ok
    /\ call.nWrites = 12676
    /\ values[3] = 2643
    /\ level = IdleLevels

(* ------------------------------------------------------------------ *)
(* C20                                                                 *)
(* ------------------------------------------------------------------ *)

\* C20: a setter call attempts no pin write and leaves the five levels as
\* they were; every step that changes a level is a step of new() or of
\* update().
C20_SettersWriteNoPin ==
    /\ [](call.op \in Setters => call.attempts = 0 /\ call.nWrites = 0)
    /\ [][(pc = "idle" /\ call'.op \in Setters) => level' = level]_vars
    /\ [][level' # level =>
            /\ call'.op \in {"new", "update"}
            /\ call'.nWrites >= 1
            /\ level'[LastWrite'[1]] = LastWrite'[2]]_vars

\* clear() was called after an update() failed in the middle of a
\* serial-clock pulse: the clock is still high
C20_Witness ==
    /\ call.op = "clear"
    /\ pc = "idle"
    /\ ret.kind = "Err"
    /\ level["sclk"] = High
    /\ level["blank"] = Low

====
